---- MODULE Spec2Model ----
(***************************************************************************)
(* Model of cxxnet's NetConfig (src/nnet/nnet_config.h): the network       *)
(* structure configuration object, its Configure pass over a list of       *)
(* (name, value) pairs, and its SaveNet / LoadNet codec.                   *)
(***************************************************************************)
EXTENDS Integers, Sequences, FiniteSets, TLC

VARIABLES
  param,           \* NetConfig::param (NetParam)
  layers,          \* NetConfig::layers
  layer_name_map,  \* NetConfig::layer_name_map
  updater_type,    \* NetConfig::updater_type
  defcfg,          \* NetConfig::defcfg
  layercfg,        \* NetConfig::layercfg
  stream,          \* the words the last SaveNet wrote to its stream
  saved,           \* param and layers of the instance SaveNet was called on
  op,              \* the last public operation
  cfg,             \* the argument of the last Configure call
  result,          \* "ok", or the message of the fatal error that ended the call
  scan,            \* Configure's locals when the last call returned or aborted
  pre,             \* the NetConfig fields as they were when the last call began
  ndecl,           \* number of (name, value) pairs handed to Configure so far
  nops             \* number of public operations called so far

vars == <<param, layers, layer_name_map, updater_type, defcfg, layercfg,
          stream, saved, op, cfg, result, scan, pre, ndecl, nops>>

\* ------------------------------------------------------------------ bounds
\* most (name, value) pairs the caller hands to Configure over one run
MaxDecls == 4
\* most public operations called in one run
MaxOps == 4

\* the same two bounds for the runs that exercise the settings lists
MaxSetDecls == 4
MaxSetOps == 2
\* and for the runs that put settings on shared layers
MaxSharedDecls == 5
MaxSharedOps == 2
MaxFrozenDecls == 4
MaxFrozenOps == 2
MaxCutDecls == 2
MaxCutOps == 3

\* ------------------------------------------------------------- small helpers
Max(a, b) == IF a >= b THEN a ELSE b
Min(a, b) == IF a <= b THEN a ELSE b

Zeros(n) == [i \in 1..n |-> 0]

\* std::vector::resize: keep the first n elements, append copies of d
Resize(v, n, d) == [i \in 1..n |-> IF i <= Len(v) THEN v[i] ELSE d]

EmptyMap == [t \in {} |-> 0]

\* ------------------------------------------------- layer types (layer.h)
kSharedLayer == 0
kFullConnect == 1
kRectifiedLinear == 3

ErrUnknownType == "unknown layer type"

\* layer::GetLayerType: the type tag of a type name, or the fatal error
GetLayerType(type) ==
  CASE type = "shared" -> [ok |-> TRUE, type |-> kSharedLayer]
    [] type = "fullc"  -> [ok |-> TRUE, type |-> kFullConnect]
    [] type = "relu"   -> [ok |-> TRUE, type |-> kRectifiedLinear]
    [] OTHER           -> [ok |-> FALSE, type |-> -1]

\* --------------------------------------------------------------- NetParam
\* number of ints in NetParam::reserved
ReservedWords == 32

\* NetParam::NetParam
NetParam == [num_nodes |-> 0, num_layers |-> 0,
             input_shape |-> <<0, 0, 0>>, init_end |-> 0]

\* --------------------------------------------------------------- LayerInfo
\* LayerInfo::LayerInfo leaves type unset; g is the value the memory holds
LayerInfo(g) == [type |-> g, primary_layer_index |-> -1,
                 nindex_in |-> <<>>, nindex_out |-> <<>>]

\* LayerInfo::operator==
LayerInfoEq(a, b) ==
  IF \/ a.type /= b.type
     \/ a.primary_layer_index /= b.primary_layer_index
     \/ Len(a.nindex_in) /= Len(b.nindex_in)
     \/ Len(a.nindex_out) /= Len(b.nindex_out)
  THEN FALSE
  ELSE /\ \A i \in 1..Len(a.nindex_in) : a.nindex_in[i] = b.nindex_in[i]
       /\ \A i \in 1..Len(a.nindex_out) : a.nindex_out[i] = b.nindex_out[i]

\* ------------------------------------------------- the text the model feeds
\* strncmp(name, "layer[", 6) == 0
LayerNames == {"layer[0->1]", "layer[1->2]", "layer[2->3]", "layer[+1]",
               "layer[+2]", "layer[x]"}
IsLayerName(name) == name \in LayerNames

\* sscanf(name, "layer[%d->%d]", &a, &b): the count and what was stored
\* ("layer[+1]" stores +1 in a and stops at the missing "->")
ScanArrow(name) ==
  CASE name = "layer[0->1]" -> [n |-> 2, a |-> 0, b |-> 1]
    [] name = "layer[1->2]" -> [n |-> 2, a |-> 1, b |-> 2]
    [] name = "layer[2->3]" -> [n |-> 2, a |-> 2, b |-> 3]
    [] name = "layer[+1]"   -> [n |-> 1, a |-> 1, b |-> 0]
    [] name = "layer[+2]"   -> [n |-> 1, a |-> 2, b |-> 0]
    [] OTHER                -> [n |-> 0, a |-> 0, b |-> 0]

\* sscanf(name, "layer[+%d]", &b)
ScanPlus(name) ==
  CASE name = "layer[+1]" -> [n |-> 1, b |-> 1]
    [] name = "layer[+2]" -> [n |-> 1, b |-> 2]
    [] OTHER              -> [n |-> 0, b |-> 0]

\* sscanf(val, "%[^:]:%s", ltype, tag)
ScanTypeTag(val) ==
  CASE val = "fullc:mytag"  -> [n |-> 2, ltype |-> "fullc",  tag |-> "mytag"]
    [] val = "relu:mytag"   -> [n |-> 2, ltype |-> "relu",   tag |-> "mytag"]
    [] val = "shared:mytag" -> [n |-> 2, ltype |-> "shared", tag |-> "mytag"]
    [] val = "shared:other" -> [n |-> 2, ltype |-> "shared", tag |-> "other"]
    [] OTHER                -> [n |-> 1, ltype |-> val, tag |-> ""]

\* sscanf(val, "%u,%u,%u", &z, &y, &x)
ScanShape(val) ==
  CASE val = "1,1,200" -> [n |-> 3, z |-> 1, y |-> 1, x |-> 200]
    [] val = "3,8,8"   -> [n |-> 3, z |-> 3, y |-> 8, x |-> 8]
    [] val = "1,200"   -> [n |-> 2, z |-> 1, y |-> 200, x |-> 0]
    [] OTHER           -> [n |-> 0, z |-> 0, y |-> 0, x |-> 0]

\* ------------------------------------------------------------ error messages
ErrShape == "input_shape must be three consecutive integers"
ErrFormat == "invalid layer format"
ErrSharedNoTag == "shared layer must specify tag of layer to share with"
ErrSharedUndef == "shared layer tag is not defined before"
ErrTagDefined == "layer tag is already defined"
ErrInconsistent == "NetConfig inconsistent"
ErrMismatch == "config setting does not match existing network structure"
ErrSharedParam == "please do not set parameters in shared layer"
ErrModel == "model inconsistent"
ErrFile == "NetConfig: invalid model file"
Crash == "crash"

\* ------------------------------------------------------------ GetLayerInfo
\* LayerNodes with the relative form read as an absolute node: b is not
\* offset by the top node
LayerNodesAbsolute(name, top_node) ==
  IF ScanArrow(name).n = 2
  THEN [ok |-> TRUE, a |-> ScanArrow(name).a, b |-> ScanArrow(name).b]
  ELSE IF ScanPlus(name).n = 1
  THEN [ok |-> TRUE, a |-> top_node, b |-> ScanPlus(name).b]
  ELSE [ok |-> FALSE, a |-> 0, b |-> 0]

\* first half of GetLayerInfo: the node indices the name token gives
LayerNodes(name, top_node) ==
  IF ScanArrow(name).n = 2
  THEN [ok |-> TRUE, a |-> ScanArrow(name).a, b |-> ScanArrow(name).b]
  ELSE IF ScanPlus(name).n = 1
  THEN [ok |-> TRUE, a |-> top_node, b |-> ScanPlus(name).b + top_node]
  ELSE [ok |-> FALSE, a |-> 0, b |-> 0]

\* second half: the type and the tag the value token gives
LayerTypeTag(val) ==
  IF ScanTypeTag(val).n = 2
  THEN [t |-> GetLayerType(ScanTypeTag(val).ltype), s_tag |-> ScanTypeTag(val).tag]
  ELSE [t |-> GetLayerType(val), s_tag |-> ""]

\* RegisterTag recording the index after the declaration's own
RegisterTagNext(m, s_tag, cfg_layer_index) ==
  [t \in DOMAIN m \cup {s_tag} |-> IF t = s_tag THEN cfg_layer_index + 1 ELSE m[t]]

\* the registry after a non-shared declaration: layer_name_map[s_tag] = index
RegisterTag(m, s_tag, cfg_layer_index) ==
  [t \in DOMAIN m \cup {s_tag} |-> IF t = s_tag THEN cfg_layer_index ELSE m[t]]

\* TagIsFree letting the empty tag through
TagIsFreeOrEmpty(m, s_tag) == s_tag = "" \/ s_tag \notin DOMAIN m

\* the check a non-shared declaration makes on its tag
TagIsFree(m, s_tag) == s_tag \notin DOMAIN m

\* BindTag binding a shared layer to itself
BindTagSelf(inf, s_tag, cfg_layer_index, m) ==
  IF inf.type = kSharedLayer
  THEN IF s_tag = ""
       THEN [err |-> ErrSharedNoTag, inf |-> inf, m |-> m]
       ELSE IF s_tag \notin DOMAIN m
       THEN [err |-> ErrSharedUndef, inf |-> inf, m |-> m]
       ELSE [err |-> "",
             inf |-> [inf EXCEPT !.primary_layer_index = cfg_layer_index],
             m |-> m]
  ELSE IF ~TagIsFree(m, s_tag)
       THEN [err |-> ErrTagDefined, inf |-> inf, m |-> m]
       ELSE [err |-> "", inf |-> inf, m |-> RegisterTag(m, s_tag, cfg_layer_index)]

\* lines 214-223 for the descriptor inf and the tag s_tag
BindTag(inf, s_tag, cfg_layer_index, m) ==
  IF inf.type = kSharedLayer
  THEN IF s_tag = ""
       THEN [err |-> ErrSharedNoTag, inf |-> inf, m |-> m]
       ELSE IF s_tag \notin DOMAIN m
       THEN [err |-> ErrSharedUndef, inf |-> inf, m |-> m]
       ELSE [err |-> "",
             inf |-> [inf EXCEPT !.primary_layer_index = m[s_tag]],
             m |-> m]
  ELSE IF ~TagIsFree(m, s_tag)
       THEN [err |-> ErrTagDefined, inf |-> inf, m |-> m]
       ELSE [err |-> "", inf |-> inf, m |-> RegisterTag(m, s_tag, cfg_layer_index)]

\* GetLayerInfo once both tokens are read
LayerInfoOf(nodes, tt, cfg_layer_index, m) ==
  IF ~nodes.ok
  THEN [err |-> ErrFormat, inf |-> LayerInfo(-1), m |-> m]
  ELSE IF ~tt.t.ok
  THEN [err |-> ErrUnknownType, inf |-> LayerInfo(-1), m |-> m]
  ELSE BindTag([type |-> tt.t.type, primary_layer_index |-> -1,
                nindex_in |-> <<nodes.a>>, nindex_out |-> <<nodes.b>>],
               tt.s_tag, cfg_layer_index, m)

\* NetConfig::GetLayerInfo: err is "" and inf the descriptor, or err is the
\* fatal error; m is layer_name_map as the call leaves it
GetLayerInfo(name, val, top_node, cfg_layer_index, m) ==
  LayerInfoOf(LayerNodes(name, top_node), LayerTypeTag(val), cfg_layer_index, m)

\* ----------------------------------------------------- InitNet, ClearConfig
\* one of the inner loops of InitNet: max(v[j] + 1, a) over the indices v
RECURSIVE MaxOver(_, _)
MaxOver(v, a) == IF v = <<>> THEN a ELSE MaxOver(Tail(v), Max(Head(v) + 1, a))

\* the node count InitNet computes: max(index + 1) over all descriptors
RECURSIVE NumNodes(_, _)
NumNodes(ls, acc) ==
  IF ls = <<>> THEN acc
  ELSE NumNodes(Tail(ls),
                MaxOver(Head(ls).nindex_out, MaxOver(Head(ls).nindex_in, acc)))

\* InitNet counting the input nodes only
InitNetInputsOnly(n) ==
  [n EXCEPT !.param =
     [@ EXCEPT !.num_nodes =
                 NumNodes([k \in 1..Len(n.layers) |->
                             [n.layers[k] EXCEPT !.nindex_out = <<>>]], 0),
               !.num_layers = Len(n.layers),
               !.init_end = 1]]

\* NetConfig::InitNet on the NetConfig record n
InitNet(n) ==
  [n EXCEPT !.param = [@ EXCEPT !.num_nodes = NumNodes(n.layers, 0),
                                !.num_layers = Len(n.layers),
                                !.init_end = 1]]

\* ClearConfig forgetting the per-layer lists
ClearConfigGlobalOnly(n) == [n EXCEPT !.defcfg = <<>>]

\* NetConfig::ClearConfig on the NetConfig record n
ClearConfig(n) ==
  [n EXCEPT !.defcfg = <<>>,
            !.layercfg = [i \in 1..Len(n.layercfg) |-> <<>>]]

\* ---------------------------------------------------------------- Configure
\* what the out-of-range accesses layers[-1] and layercfg[-1] can do
\* (lines 180-182 with cfg_layer_index = 0): the word read as the type is the
\* shared tag and the check fails; the write faults; or the write lands
\* outside every list the object shows and the scan goes on
UBOutcomes == {"check", "fault", "stray"}

\* Configure's locals and the NetConfig record n at the start of the scan
ScanStart(n) ==
  [n |-> ClearConfig(n), netcfg_mode |-> 0, cfg_top_node |-> 0,
   cfg_layer_index |-> 0, i |-> 1, err |-> "", infos |-> <<>>, ub |-> FALSE]

\* StepShape honouring input_shape whether the structure is fixed or not
StepShapeAlways(s, name, val) ==
  IF name = "input_shape"
  THEN IF ScanShape(val).n = 3
       THEN [s EXCEPT !.n.param.input_shape =
                        <<ScanShape(val).z, ScanShape(val).y, ScanShape(val).x>>]
       ELSE [s EXCEPT !.err = ErrShape]
  ELSE s

\* lines 150-157: input_shape, honoured while the structure is not fixed
StepShape(s, name, val) ==
  IF s.n.param.init_end = 0 /\ name = "input_shape"
  THEN IF ScanShape(val).n = 3
       THEN [s EXCEPT !.n.param.input_shape =
                        <<ScanShape(val).z, ScanShape(val).y, ScanShape(val).x>>]
       ELSE [s EXCEPT !.err = ErrShape]
  ELSE s

\* lines 158-160: updater and the netconfig markers
StepMode(s, name, val) ==
  [s EXCEPT !.n.updater_type = IF name = "updater" THEN val ELSE @,
            !.netcfg_mode = IF name = "netconfig" /\ val = "end" THEN 2
                            ELSE IF name = "netconfig" /\ val = "start" THEN 1
                            ELSE @]

\* lines 164-172: the first pass appends the descriptor, a later pass
\* compares it with the one the structure holds
StepStructure(s, info) ==
  IF s.n.param.init_end = 0
  THEN IF Len(s.n.layers) /= s.cfg_layer_index
       THEN [s EXCEPT !.err = ErrInconsistent]
       ELSE [s EXCEPT !.n.layers = Append(@, info),
                      !.n.layercfg = Resize(@, Len(s.n.layers) + 1, <<>>)]
  ELSE IF /\ s.cfg_layer_index < Len(s.n.layers)
          /\ LayerInfoEq(info, s.n.layers[s.cfg_layer_index + 1])
       THEN s
       ELSE [s EXCEPT !.err = ErrMismatch]

\* lines 173-177: the top node and the layer index after the declaration
StepAdvance(s, info) ==
  IF s.err /= "" THEN s
  ELSE [s EXCEPT !.cfg_top_node =
                   IF Len(info.nindex_out) /= 0 THEN info.nindex_out[1] ELSE @,
                 !.cfg_layer_index = @ + 1,
                 !.i = @ + 1]

\* lines 162-177 with r what GetLayerInfo gave
StepParsed(s, r) ==
  IF r.err /= ""
  THEN [s EXCEPT !.n.layer_name_map = r.m, !.err = r.err]
  ELSE StepAdvance(StepStructure([s EXCEPT !.n.layer_name_map = r.m,
                                           !.netcfg_mode = 2,
                                           !.infos = Append(@, r.inf)], r.inf),
                   r.inf)

\* lines 161-178: a layer declaration
StepLayer(s, name, val) ==
  StepParsed(s, GetLayerInfo(name, val, s.cfg_top_node, s.cfg_layer_index,
                             s.n.layer_name_map))

\* StepSetting without the check on the type of the layer
StepSettingUnchecked(s, name, val, u) ==
  IF s.netcfg_mode = 2
  THEN IF s.cfg_layer_index = 0
       THEN CASE u = "check" -> [s EXCEPT !.ub = TRUE, !.err = ErrSharedParam]
              [] u = "fault" -> [s EXCEPT !.ub = TRUE, !.err = Crash]
              [] OTHER       -> [s EXCEPT !.ub = TRUE, !.i = @ + 1]
       ELSE [s EXCEPT !.n.layercfg[s.cfg_layer_index] = Append(@, <<name, val>>),
                      !.i = @ + 1]
  ELSE [s EXCEPT !.n.defcfg = Append(@, <<name, val>>), !.i = @ + 1]

\* lines 179-185: any key that is no layer declaration is recorded
StepSetting(s, name, val, u) ==
  IF s.netcfg_mode = 2
  THEN IF s.cfg_layer_index = 0
       THEN CASE u = "check" -> [s EXCEPT !.ub = TRUE, !.err = ErrSharedParam]
              [] u = "fault" -> [s EXCEPT !.ub = TRUE, !.err = Crash]
              [] OTHER       -> [s EXCEPT !.ub = TRUE, !.i = @ + 1]
       ELSE IF s.n.layers[s.cfg_layer_index].type = kSharedLayer
       THEN [s EXCEPT !.err = ErrSharedParam]
       ELSE [s EXCEPT !.n.layercfg[s.cfg_layer_index] = Append(@, <<name, val>>),
                      !.i = @ + 1]
  ELSE [s EXCEPT !.n.defcfg = Append(@, <<name, val>>), !.i = @ + 1]

\* lines 161-185 of one iteration
StepKey(s, name, val, u) ==
  IF IsLayerName(name) THEN StepLayer(s, name, val)
  ELSE StepSetting(s, name, val, u)

\* lines 158-185 of one iteration, s1 the locals after lines 150-157
StepRest(s1, name, val, u) ==
  IF s1.err /= "" THEN s1 ELSE StepKey(StepMode(s1, name, val), name, val, u)

\* one iteration of the loop of lines 147-186
Step(s, name, val, u) == StepRest(StepShape(s, name, val), name, val, u)

\* the loop, to its end or to the fatal error that ends the call
RECURSIVE Scan(_, _, _)
Scan(s, c, u) ==
  IF s.err /= "" \/ s.i > Len(c) THEN s
  ELSE Scan(Step(s, c[s.i][1], c[s.i][2], u), c, u)

\* line 187
Finish(s) ==
  IF s.err = "" /\ s.n.param.init_end = 0 THEN [s EXCEPT !.n = InitNet(s.n)] ELSE s

\* NetConfig::Configure on the NetConfig record n
ConfigureNet(n, c, u) == Finish(Scan(ScanStart(n), c, u))

\* ------------------------------------------------------------------ streams
\* IStream::Write(const std::vector<T>&): the length, then the elements
WriteVec(v) == <<Len(v)>> \o v

\* fo.Write(&param, sizeof(param)): the record as it lies in memory
ParamWords(p) ==
  <<p.num_nodes, p.num_layers, p.input_shape[1], p.input_shape[2],
    p.input_shape[3], p.init_end>> \o Zeros(ReservedWords)

\* lines 109-112: one descriptor as SaveNet writes it
LayerWords(l) ==
  <<l.primary_layer_index, l.type>> \o WriteVec(l.nindex_in) \o WriteVec(l.nindex_out)

RECURSIVE LayersWords(_)
LayersWords(ls) ==
  IF ls = <<>> THEN <<>> ELSE LayerWords(Head(ls)) \o LayersWords(Tail(ls))

\* NetConfig::SaveNet: the words written and the error, if any
SaveNetWords(p, ls) ==
  IF p.num_layers /= Len(ls)
  THEN [err |-> ErrModel, out |-> ParamWords(p)]
  ELSE [err |-> "", out |-> ParamWords(p) \o LayersWords(ls)]

\* fi.Read(&param, sizeof(param)): the first k words of the record replaced
ReadParam(p, w, k) ==
  [num_nodes  |-> IF k >= 1 THEN w[1] ELSE p.num_nodes,
   num_layers |-> IF k >= 2 THEN w[2] ELSE p.num_layers,
   input_shape |-> <<IF k >= 3 THEN w[3] ELSE p.input_shape[1],
                     IF k >= 4 THEN w[4] ELSE p.input_shape[2],
                     IF k >= 5 THEN w[5] ELSE p.input_shape[3]>>,
   init_end   |-> IF k >= 6 THEN w[6] ELSE p.init_end]

\* IStream::Read(std::vector<T>*) at position pos of the words w: the length,
\* resize, then as many elements as the stream still holds
ReadVec(v, w, pos) ==
  IF pos > Len(w) THEN [ok |-> FALSE, v |-> v, pos |-> pos]
  ELSE IF w[pos] /= 0 /\ Len(w) = pos
  THEN [ok |-> FALSE, v |-> Resize(v, w[pos], 0), pos |-> pos + 1]
  ELSE [ok |-> TRUE,
        v |-> [j \in 1..w[pos] |->
                 IF pos + j <= Len(w) THEN w[pos + j]
                 ELSE IF j <= Len(v) THEN v[j] ELSE 0],
        pos |-> pos + 1 + Min(w[pos], Len(w) - pos)]

\* the descriptor once both index vectors are read
ReadOutDone(l, rout) ==
  [ok |-> rout.ok, l |-> [l EXCEPT !.nindex_out = rout.v], pos |-> rout.pos]

\* line 132, rin what the read of nindex_in gave
ReadOut(l, w, rin) ==
  IF ~rin.ok THEN [ok |-> FALSE, l |-> [l EXCEPT !.nindex_in = rin.v], pos |-> rin.pos]
  ELSE ReadOutDone([l EXCEPT !.nindex_in = rin.v], ReadVec(l.nindex_out, w, rin.pos))

\* lines 127-132: one descriptor as LoadNet reads it
ReadLayer(l, w, pos) ==
  IF pos > Len(w) THEN [ok |-> FALSE, l |-> l, pos |-> pos]
  ELSE IF pos + 1 > Len(w)
  THEN [ok |-> FALSE, l |-> [l EXCEPT !.type = w[pos]], pos |-> pos + 1]
  ELSE ReadOut([l EXCEPT !.type = w[pos], !.primary_layer_index = w[pos + 1]],
               w, ReadVec(l.nindex_in, w, pos + 2))

\* the loop of lines 126-133 from layer i on
RECURSIVE ReadLayers(_, _, _, _)
\* the loop once layer i is read, r what the read gave
ReadNext(n, w, i, r) ==
  IF ~r.ok THEN [err |-> ErrFile, n |-> [n EXCEPT !.layers[i] = r.l]]
  ELSE ReadLayers([n EXCEPT !.layers[i] = r.l], w, r.pos, i + 1)

ReadLayers(n, w, pos, i) ==
  IF i > n.param.num_layers THEN [err |-> "", n |-> n]
  ELSE ReadNext(n, w, i, ReadLayer(n.layers[i], w, pos))

\* line 134, r what the loop gave
LoadDone(r) == IF r.err /= "" THEN r ELSE [err |-> "", n |-> ClearConfig(r.n)]

\* lines 124-134, p the record line 122 read and k the words it took
LoadLayers(n, p, w, k, g) ==
  LoadDone(ReadLayers([n EXCEPT !.param = p,
                                !.layers = Resize(@, p.num_layers, LayerInfo(g)),
                                !.layercfg = Resize(@, p.num_layers, <<>>)],
                      w, k + 1, 1))

\* NetConfig::LoadNet on the NetConfig record n, from the words w; g is what
\* the type field of a LayerInfo that resize constructs holds
LoadNetFrom(n, w, g) ==
  IF Len(w) = 0 THEN [err |-> ErrFile, n |-> n]
  ELSE LoadLayers(n, ReadParam(n.param, w, Min(6 + ReservedWords, Len(w))),
                  w, Min(6 + ReservedWords, Len(w)), g)

\* ------------------------------------------------------- the state machine
\* the NetConfig object as one record
Net == [param |-> param, layers |-> layers, layer_name_map |-> layer_name_map,
        updater_type |-> updater_type, defcfg |-> defcfg, layercfg |-> layercfg]

\* NetConfig::NetConfig
NewNet == [param |-> NetParam, layers |-> <<>>, layer_name_map |-> EmptyMap,
           updater_type |-> "sgd", defcfg |-> <<>>, layercfg |-> <<>>]

\* Configure's locals before any call
NoScan == [netcfg_mode |-> 0, cfg_top_node |-> 0, cfg_layer_index |-> 0,
           i |-> 1, infos |-> <<>>, ub |-> FALSE]

Locals(s) == [netcfg_mode |-> s.netcfg_mode, cfg_top_node |-> s.cfg_top_node,
              cfg_layer_index |-> s.cfg_layer_index, i |-> s.i,
              infos |-> s.infos, ub |-> s.ub]

SetNet(n) ==
  /\ param' = n.param
  /\ layers' = n.layers
  /\ layer_name_map' = n.layer_name_map
  /\ updater_type' = n.updater_type
  /\ defcfg' = n.defcfg
  /\ layercfg' = n.layercfg

Outcome(err) == IF err = "" THEN "ok" ELSE err

\* the (name, value) pairs the caller draws its configurations from
L01f  == <<"layer[0->1]", "fullc">>
L01ft == <<"layer[0->1]", "fullc:mytag">>
L12r  == <<"layer[1->2]", "relu">>
Lp1s  == <<"layer[+1]", "shared:mytag">>
L23s  == <<"layer[2->3]", "shared">>
KeyLr == <<"lr", "0.1">>
NcStart == <<"netconfig", "start">>
NcEnd == <<"netconfig", "end">>
InShape == <<"input_shape", "3,8,8">>

Decls == {L01f, L01ft, L12r, Lp1s, L23s}

SeqsUpTo(S, n) == UNION { [1..k -> S] : k \in 0..n }

\* what the type field of a LayerInfo that nothing has set can hold
GarbageTypes == {kSharedLayer, kFullConnect}

Init ==
  /\ param = NetParam
  /\ layers = <<>>
  /\ layer_name_map = EmptyMap
  /\ updater_type = "sgd"
  /\ defcfg = <<>>
  /\ layercfg = <<>>
  /\ stream = <<>>
  /\ saved = [param |-> NetParam, layers |-> <<>>]
  /\ op = "none"
  /\ cfg = <<>>
  /\ result = "ok"
  /\ scan = NoScan
  /\ pre = NewNet
  /\ ndecl = 0
  /\ nops = 0

\* a public operation can be called: the process lives and the run is in bounds
CanCall(maxops) == result /= Crash /\ nops < maxops

\* the outcomes a call of Configure(c) on n can have: one, unless the scan
\* reaches the out-of-range access
UBChoices(n, c) ==
  IF ConfigureNet(n, c, "stray").ub THEN UBOutcomes ELSE {"stray"}

\* the object and the caller's view after Configure(c) ended with locals s
ConfigureDone(s, c) ==
  /\ SetNet(s.n)
  /\ cfg' = c
  /\ result' = Outcome(s.err)
  /\ scan' = Locals(s)
  /\ ndecl' = ndecl + Len(c)

\* net.Configure(c), c drawn from the pairs E
ConfigureFrom(E, maxdecls, maxops) ==
  /\ CanCall(maxops)
  /\ \E c \in SeqsUpTo(E, maxdecls - ndecl) :
       \E u \in UBChoices(Net, c) : ConfigureDone(ConfigureNet(Net, c, u), c)
  /\ op' = "Configure"
  /\ pre' = Net
  /\ nops' = nops + 1
  /\ UNCHANGED <<stream, saved>>

\* the stream and the caller's view after SaveNet gave r
SaveDone(r) == stream' = r.out /\ result' = Outcome(r.err)

\* net.SaveNet(fo) on an empty stream fo
SaveNetWithin(maxops) ==
  /\ CanCall(maxops)
  /\ SaveDone(SaveNetWords(param, layers))
  /\ saved' = [param |-> param, layers |-> layers]
  /\ op' = "SaveNet"
  /\ pre' = Net
  /\ nops' = nops + 1
  /\ UNCHANGED <<param, layers, layer_name_map, updater_type, defcfg, layercfg,
                 cfg, scan, ndecl>>

\* the object and the caller's view after LoadNet gave r
LoadDoneWith(r) == SetNet(r.n) /\ result' = Outcome(r.err)

\* LoadNet(fi) on the NetConfig record n, fi holding the first k words saved
LoadInto(n, k, maxops) ==
  /\ CanCall(maxops)
  /\ \E g \in GarbageTypes : LoadDoneWith(LoadNetFrom(n, SubSeq(stream, 1, k), g))
  /\ pre' = n
  /\ nops' = nops + 1
  /\ UNCHANGED <<stream, saved, cfg, scan, ndecl>>

\* the stream as SaveNet left it
Whole == {Len(stream)}

Configure == ConfigureFrom(Decls, MaxDecls, MaxOps)
SaveNet == SaveNetWithin(MaxOps)
\* net.LoadNet(fi)
LoadNet == \E k \in Whole : LoadInto(Net, k, MaxOps) /\ op' = "LoadNet"
\* NetConfig fresh; fresh.LoadNet(fi): the model goes on with the new object
LoadNew == \E k \in Whole : LoadInto(NewNet, k, MaxOps) /\ op' = "LoadNew"

\* the runs that exercise the settings lists: Configure calls alone
SetDecls == {L01f, L01ft, Lp1s, KeyLr, NcStart, NcEnd}
ConfigureSettings == ConfigureFrom(SetDecls, MaxSetDecls, MaxSetOps)
NextSettings == ConfigureSettings
SpecSettings == Init /\ [][NextSettings]_vars

\* the runs that put settings on shared layers, in a first and in a later pass
SharedDecls == {L01f, L01ft, Lp1s, KeyLr, NcStart}
ConfigureShared == ConfigureFrom(SharedDecls, MaxSharedDecls, MaxSharedOps)
NextShared == ConfigureShared
SpecShared == Init /\ [][NextShared]_vars

\* the runs that meet a fixed structure with every kind of key
FrozenDecls == {L01f, L12r, Lp1s, InShape, KeyLr, NcEnd}
ConfigureFrozen == ConfigureFrom(FrozenDecls, MaxFrozenDecls, MaxFrozenOps)
NextFrozen == ConfigureFrozen
SpecFrozen == Init /\ [][NextFrozen]_vars

\* the runs that load a stream cut short: nothing, part of the param record,
\* or the param record and any number of the words after it
CutDecls == {L01ft, Lp1s}
Cuts == {k \in 0..Len(stream) : k \in {0, 2} \/ k >= 6 + ReservedWords}
ConfigureCut == ConfigureFrom(CutDecls, MaxCutDecls, MaxCutOps)
SaveNetCut == SaveNetWithin(MaxCutOps)
LoadNetCut == \E k \in Cuts : LoadInto(Net, k, MaxCutOps) /\ op' = "LoadNet"
LoadNewCut == \E k \in Cuts : LoadInto(NewNet, k, MaxCutOps) /\ op' = "LoadNew"
NextCut == ConfigureCut \/ SaveNetCut \/ LoadNetCut \/ LoadNewCut
SpecCut == Init /\ [][NextCut]_vars

Next == Configure \/ SaveNet \/ LoadNet \/ LoadNew

Spec == Init /\ [][Next]_vars

\* ================================================================ properties
\* ---- reading the last Configure call off its argument
IsLayerDecl(e) == IsLayerName(e[1])
\* the name token has one of the two accepted forms
HasNodes(e) == ScanArrow(e[1]).n = 2 \/ ScanPlus(e[1]).n = 1
IsRelative(e) == ScanArrow(e[1]).n /= 2 /\ ScanPlus(e[1]).n = 1
DeclType(e) == LayerTypeTag(e[2]).t
DeclTag(e) == LayerTypeTag(e[2]).s_tag
IsSharedDecl(e) ==
  IsLayerDecl(e) /\ HasNodes(e) /\ DeclType(e).ok /\ DeclType(e).type = kSharedLayer
IsPlainDecl(e) ==
  IsLayerDecl(e) /\ HasNodes(e) /\ DeclType(e).ok /\ DeclType(e).type /= kSharedLayer

\* the layer declarations among the first j - 1 entries of c
LayersBefore(c, j) == {i \in 1..(j - 1) : IsLayerDecl(c[i])}
\* the index the declaration at position j takes when the scan reaches it
LayerIndexOf(c, j) == Cardinality(LayersBefore(c, j))
\* the scan of the last call reached entry j; it aborted there; it passed it
Reached(j) == j <= Len(cfg) /\ j <= scan.i
FailedAt(j) == result /= "ok" /\ scan.i = j
Passed(j) == j < scan.i

\* the last call was the first Configure on a newly constructed object
FirstOnFresh == op = "Configure" /\ pre = NewNet

\* ---- C1
\* C1: a declaration sequence whose first Configure on a fresh NetConfig
\* succeeded is accepted again by a second Configure on the same object, which
\* leaves param and layers as the first call left them.
C1_SecondPassSucceeds ==
  [][ (FirstOnFresh /\ result = "ok" /\ op' = "Configure" /\ cfg' = cfg)
        => (result' = "ok" /\ param' = param /\ layers' = layers) ]_vars

\* ---- C3
UntaggedPlain(e) == IsPlainDecl(e) /\ DeclTag(e) = ""
\* C3: a first pass on a fresh NetConfig made of two or more non-shared layer
\* declarations that carry no tag succeeds and finalizes the graph with one
\* descriptor per declaration.
C3_UntaggedLayersAccepted ==
  (/\ FirstOnFresh
   /\ Len(cfg) >= 2
   /\ \A j \in 1..Len(cfg) : UntaggedPlain(cfg[j]))
  => (result = "ok" /\ param.init_end = 1 /\ param.num_layers = Len(cfg)
      /\ Len(layers) = Len(cfg))

\* ---- C4
\* every index + 1 a descriptor sequence mentions
NodeBounds(ls) ==
  UNION { {ls[k].nindex_in[j] + 1 : j \in 1..Len(ls[k].nindex_in)}
          \cup {ls[k].nindex_out[j] + 1 : j \in 1..Len(ls[k].nindex_out)}
          : k \in 1..Len(ls) }
Greatest(S) == IF S = {} THEN 0 ELSE CHOOSE x \in S : \A y \in S : y <= x

\* C4: after every Configure call that succeeds on a graph not yet finalized,
\* init_end is set, num_layers is the length of layers and num_nodes is the
\* greatest index + 1 over all input and output nodes (0 without descriptors).
C4_Finalization ==
  (op = "Configure" /\ result = "ok" /\ pre.param.init_end = 0)
  => (/\ param.init_end = 1
      /\ param.num_layers = Len(layers)
      /\ param.num_nodes = Greatest(NodeBounds(layers)))

C4_Witness ==
  /\ op = "Configure" /\ result = "ok" /\ pre.param.init_end = 0
  /\ Len(layers) = 2 /\ param.num_nodes = 3
  /\ layers[2].nindex_out = <<2>>

\* ---- C5
\* the declaration e names another type, or other nodes, than descriptor l
DeclDiffers(e, l) ==
  \/ DeclType(e).ok /\ DeclType(e).type /= l.type
  \/ ScanArrow(e[1]).n = 2
     /\ (l.nindex_in /= <<ScanArrow(e[1]).a>> \/ l.nindex_out /= <<ScanArrow(e[1]).b>>)

\* the plain declarations before position j of c that carry the tag t
Declaring(c, j, t) == {i \in 1..(j - 1) : IsPlainDecl(c[i]) /\ DeclTag(c[i]) = t}
\* read by itself, the sequence c gives the declaration at j a descriptor: a
\* plain layer whose tag c has not used yet, or a shared layer whose tag an
\* earlier plain layer of c carries
WellFormedAt(c, j) ==
  \/ IsPlainDecl(c[j]) /\ Declaring(c, j, DeclTag(c[j])) = {}
  \/ IsSharedDecl(c[j]) /\ DeclTag(c[j]) /= "" /\ Declaring(c, j, DeclTag(c[j])) /= {}

\* C5: on a finalized graph, a Configure pass that comes to a declaration for
\* an existing layer index k whose descriptor differs from layers[k] fails with
\* the structure-mismatch error and leaves layers and param unchanged.
C5_MismatchReported ==
  \A j \in 1..Len(cfg) :
    (/\ op = "Configure" /\ pre.param.init_end = 1
     /\ Reached(j) /\ WellFormedAt(cfg, j)
     /\ LayerIndexOf(cfg, j) < Len(pre.layers)
     /\ DeclDiffers(cfg[j], pre.layers[LayerIndexOf(cfg, j) + 1]))
    => (result = ErrMismatch /\ layers = pre.layers /\ param = pre.param)

\* ---- C6
\* C6: in a first pass on a fresh NetConfig a shared declaration fails when it
\* gives no tag and when no earlier plain declaration of the pass carries its
\* tag; when the plain declaration with index i carries it, the declaration is
\* accepted and its descriptor has primary_layer_index = i.
C6_SharedBinding ==
  FirstOnFresh =>
    \A j \in 1..Len(cfg) :
      (Reached(j) /\ IsSharedDecl(cfg[j])) =>
        LET t == DeclTag(cfg[j])
            prim == Declaring(cfg, j, t)
        IN  IF t = "" THEN FailedAt(j) /\ result = ErrSharedNoTag
            ELSE IF prim = {} THEN FailedAt(j) /\ result = ErrSharedUndef
            ELSE /\ Passed(j)
                 /\ \A i \in prim :
                      layers[LayerIndexOf(cfg, j) + 1].primary_layer_index
                        = LayerIndexOf(cfg, i)

C6_Witness ==
  /\ FirstOnFresh /\ result = "ok" /\ Len(cfg) = 3
  /\ cfg[2] = L01ft /\ cfg[3] = Lp1s
  /\ layers[3].type = kSharedLayer /\ layers[3].primary_layer_index = 1

\* ---- C7
\* the tags the registry holds when the scan of c, begun with registry m,
\* comes to position j
TagsAt(m, c, j) == DOMAIN m \cup {DeclTag(c[i]) : i \in {i \in 1..(j - 1) : IsPlainDecl(c[i])}}

\* C7: a plain (non-shared) declaration whose tag, the empty tag when it gives
\* none, is registered already fails with "layer tag is already defined";
\* otherwise the parser accepts it and the registry maps its tag to the index
\* the declaration takes; the entries the registry held stay as they were.
C7_TagRegistry ==
  op = "Configure" =>
    /\ \A j \in 1..Len(cfg) :
         (Reached(j) /\ IsPlainDecl(cfg[j])) =>
           IF DeclTag(cfg[j]) \in TagsAt(pre.layer_name_map, cfg, j)
           THEN FailedAt(j) /\ result = ErrTagDefined
           ELSE /\ FailedAt(j) => result \in {ErrInconsistent, ErrMismatch}
                /\ DeclTag(cfg[j]) \in DOMAIN layer_name_map
                /\ layer_name_map[DeclTag(cfg[j])] = LayerIndexOf(cfg, j)
    /\ \A t \in DOMAIN pre.layer_name_map :
         t \in DOMAIN layer_name_map /\ layer_name_map[t] = pre.layer_name_map[t]

C7_Witness ==
  /\ op = "Configure" /\ result = ErrTagDefined /\ Len(cfg) = 3 /\ scan.i = 3
  /\ cfg[3] = L12r
  /\ "" \in DOMAIN layer_name_map /\ layer_name_map[""] = 0
  /\ "mytag" \in DOMAIN layer_name_map /\ layer_name_map["mytag"] = 1

\* ---- C8
\* the position in c of its k-th layer declaration
NthLayer(c, k) == CHOOSE j \in 1..Len(c) : IsLayerDecl(c[j]) /\ LayerIndexOf(c, j) = k - 1

\* C8: in every pass a layer[+B] declaration gives a descriptor whose one input
\* node is the output node of the layer declaration processed before it in
\* that pass (0 for the first of the pass) and whose one output node is that
\* node plus B; a first pass appends these descriptors to layers.
C8_RelativeNodes ==
  op = "Configure" =>
    /\ \A k \in 1..Len(scan.infos) :
         IsRelative(cfg[NthLayer(cfg, k)]) =>
           LET top == IF k = 1 THEN 0 ELSE scan.infos[k - 1].nindex_out[1]
           IN  /\ scan.infos[k].nindex_in = <<top>>
               /\ scan.infos[k].nindex_out = <<top + ScanPlus(cfg[NthLayer(cfg, k)][1]).b>>
    /\ (pre.param.init_end = 0 /\ result = "ok")
         => layers = pre.layers \o scan.infos

C8_Witness ==
  /\ op = "Configure" /\ result = "ok" /\ Len(cfg) = 3
  /\ cfg[2] = L12r /\ cfg[3] = Lp1s
  /\ Len(layers) = 3
  /\ layers[2].nindex_out = <<2>>
  /\ layers[3].nindex_in = <<2>> /\ layers[3].nindex_out = <<3>>

\* a later pass starts from node 0 again, whatever the pass before reached
C8_ResetSeen ==
  /\ op = "Configure" /\ pre.param.init_end = 1 /\ pre.param.num_nodes = 3
  /\ Len(scan.infos) = 1 /\ cfg[1] = Lp1s
  /\ scan.infos[1].nindex_in = <<0>> /\ scan.infos[1].nindex_out = <<1>>

\* ---- C2
\* C2: SaveNet of a finalized graph followed by LoadNet of the whole stream
\* gives param equal to the saved one and layers of the same length with the
\* same type, primary_layer_index and node indices at every position.
C2_RoundTrip ==
  (/\ op \in {"LoadNet", "LoadNew"}
   /\ saved.param.init_end = 1
   /\ SaveNetWords(saved.param, saved.layers) = [err |-> "", out |-> stream])
  => (/\ result = "ok"
      /\ param = saved.param
      /\ Len(layers) = Len(saved.layers)
      /\ \A i \in 1..Len(layers) :
           i <= Len(saved.layers) =>
             /\ layers[i].type = saved.layers[i].type
             /\ layers[i].primary_layer_index = saved.layers[i].primary_layer_index
             /\ layers[i].nindex_in = saved.layers[i].nindex_in
             /\ layers[i].nindex_out = saved.layers[i].nindex_out)

\* ---- C9
\* where the scan of c records the entry at position j: 0 for the global
\* list, k >= 1 for the list of the k-th layer, -1 for no list of the object
ModeMarks(c, j) ==
  {i \in 1..j : IsLayerDecl(c[i]) \/ c[i] = NcStart \/ c[i] = NcEnd}
Target(c, j) ==
  IF ModeMarks(c, j) = {} THEN 0
  ELSE LET m == Greatest(ModeMarks(c, j))
       IN  IF c[m] = NcStart THEN 0
           ELSE IF LayerIndexOf(c, j) = 0 THEN -1
           ELSE LayerIndexOf(c, j)

\* the entries of c that are no layer declarations and go to list w, in order
EntriesFor(c, w) ==
  LET F[j \in 0..Len(c)] ==
        IF j = 0 THEN <<>>
        ELSE IF ~IsLayerDecl(c[j]) /\ Target(c, j) = w THEN Append(F[j - 1], c[j])
        ELSE F[j - 1]
  IN  F[Len(c)]

\* C9: after a successful Configure call the global list and every per-layer
\* list hold the entries that call's sequence puts there, in order, and
\* nothing an earlier call recorded; after an empty sequence all are empty.
C9_SettingsOfThisCall ==
  (op = "Configure" /\ result = "ok")
  => (/\ defcfg = EntriesFor(cfg, 0)
      /\ Len(layercfg) = Len(layers)
      /\ \A k \in 1..Len(layercfg) : layercfg[k] = EntriesFor(cfg, k))

C9_Witness ==
  /\ op = "Configure" /\ result = "ok" /\ cfg = <<>>
  /\ pre.defcfg = <<KeyLr>> /\ pre.layercfg = << <<KeyLr>> >>
  /\ defcfg = <<>> /\ layercfg = << <<>> >>

\* ---- C10
IsSettingKey(e) ==
  ~IsLayerDecl(e) /\ e[1] \notin {"input_shape", "updater", "netconfig"}
\* position j follows the shared declaration at i, no layer declaration between
FollowsShared(c, i, j) ==
  /\ i < j /\ IsSharedDecl(c[i])
  /\ \A x \in (i + 1)..(j - 1) : ~IsLayerDecl(c[x])

\* C10 as stated: in any pass a settings key that follows a shared layer
\* declaration, no other layer declaration between, makes Configure fail with
\* "please do not set parameters in shared layer" and that layer's list gets
\* no entry.
C10_SharedSettingRejected ==
  op = "Configure" =>
    \A j \in 1..Len(cfg) : \A i \in 1..Len(cfg) :
      (Reached(j) /\ IsSettingKey(cfg[j]) /\ FollowsShared(cfg, i, j))
      => (/\ FailedAt(j) /\ result = ErrSharedParam
          /\ layercfg[LayerIndexOf(cfg, i) + 1] = <<>>)

\* C10 amended: the same, when no "netconfig: start" stands between the shared
\* declaration and the settings key either.
C10_SharedSettingRejectedInBlock ==
  op = "Configure" =>
    \A j \in 1..Len(cfg) : \A i \in 1..Len(cfg) :
      (/\ Reached(j) /\ IsSettingKey(cfg[j]) /\ FollowsShared(cfg, i, j)
       /\ \A x \in (i + 1)..(j - 1) : cfg[x] /= NcStart)
      => (/\ FailedAt(j) /\ result = ErrSharedParam
          /\ layercfg[LayerIndexOf(cfg, i) + 1] = <<>>)

\* the case in a re-validation pass
C10_Witness ==
  /\ op = "Configure" /\ pre.param.init_end = 1
  /\ cfg = <<L01f, Lp1s, KeyLr>>
  /\ result = ErrSharedParam /\ scan.i = 3
  /\ layers[2].type = kSharedLayer /\ layercfg[2] = <<>>

\* ---- C11
\* Configure(c) on a new object builds the finalized graph g
BuiltBy(c, g) ==
  /\ ConfigureNet(NewNet, c, "stray").err = ""
  /\ ~ConfigureNet(NewNet, c, "stray").ub
  /\ ConfigureNet(NewNet, c, "stray").n.param = g.param
  /\ ConfigureNet(NewNet, c, "stray").n.layers = g.layers

\* a new object has just loaded the stream SaveNet wrote for the finalized
\* graph that Configure(cfg) builds
LoadedBuilt ==
  /\ op = "LoadNew" /\ result = "ok"
  /\ saved.param.init_end = 1
  /\ BuiltBy(cfg, saved)
  /\ SaveNetWords(saved.param, saved.layers) = [err |-> "", out |-> stream]

\* C11: right after a new object loaded the saved graph that Configure(c)
\* built, the global list and every per-layer list are empty and there are
\* num_layers per-layer lists; Configure(c) on the loaded object then succeeds
\* and leaves the loaded param and layers unchanged.
C11_ReloadRevalidates ==
  [][ LoadedBuilt =>
        /\ defcfg = <<>>
        /\ Len(layercfg) = param.num_layers
        /\ \A k \in 1..Len(layercfg) : layercfg[k] = <<>>
        /\ (op' = "Configure" /\ cfg' = cfg)
             => (result' = "ok" /\ param' = param /\ layers' = layers) ]_vars

\* the part of C11 about the state right after LoadNet, on any object
C11_LoadedClean ==
  (op \in {"LoadNet", "LoadNew"} /\ result = "ok")
  => (/\ defcfg = <<>>
      /\ Len(layercfg) = param.num_layers
      /\ \A k \in 1..Len(layercfg) : layercfg[k] = <<>>)

\* ---- C12
\* C12: a Configure call on a graph whose init_end is set, whether it succeeds
\* or aborts and whatever keys it holds, leaves num_nodes, num_layers,
\* input_shape and init_end, and the layers sequence, as they were.
C12_FrozenStructure ==
  (op = "Configure" /\ pre.param.init_end = 1)
  => (param = pre.param /\ layers = pre.layers)

\* a later pass that holds an input_shape key and a new layer declaration
C12_Witness ==
  /\ op = "Configure" /\ pre.param.init_end = 1
  /\ Len(cfg) = 2 /\ cfg[1] = InShape /\ cfg[2] = L12r
  /\ Len(pre.layers) = 1
  /\ param.input_shape = <<0, 0, 0>> /\ Len(layers) = 1

\* ---- C13
\* C13: in every state between public operations, aborted calls included,
\* param.num_layers is the length of layers.
C13_LayerCount == param.num_layers = Len(layers)

\* ---- C14
\* the last call was a Configure or LoadNet that aborted with a fatal error
Aborted == op \in {"Configure", "LoadNet", "LoadNew"} /\ result \notin {"ok", Crash}

\* the descriptor l lacks an index vector: LoadNet made it by resize and did
\* not come to read it whole (every descriptor GetLayerInfo makes has one
\* input and one output node)
Unread(l) == l.nindex_in = <<>> \/ l.nindex_out = <<>>

\* C14: after a Configure or LoadNet call that aborted, init_end is not set
\* while layers holds part of the rejected input only or num_layers or
\* num_nodes disagree with layers.
C14_NoPartialGraph ==
  (Aborted /\ param.init_end = 1)
  => (/\ param.num_layers = Len(layers)
      /\ param.num_nodes = Greatest(NodeBounds(layers))
      /\ op = "Configure" => (pre.param.init_end = 1 /\ layers = pre.layers)
      /\ op \in {"LoadNet", "LoadNew"} => \A i \in 1..Len(layers) : ~Unread(layers[i]))

\* ---- C15
\* the position of the first layer declaration of c, Len(c) + 1 without one
FirstLayer(c) ==
  IF \E j \in 1..Len(c) : IsLayerDecl(c[j])
  THEN CHOOSE j \in 1..Len(c) : IsLayerDecl(c[j]) /\ LayersBefore(c, j) = {}
  ELSE Len(c) + 1

\* the settings keys of s, in order
SettingKeys(s) == SelectSeq(s, IsSettingKey)

IsPrefix(a, b) == Len(a) <= Len(b) /\ SubSeq(b, 1, Len(a)) = a

\* C15: in any pass every key before the first layer declaration is handled
\* without error, whatever netconfig markers stand before it; the settings
\* keys among them are appended to the global list, in order, and a pass
\* without layer declaration appends to no per-layer list.
C15_KeysBeforeFirstLayer ==
  op = "Configure" =>
    /\ \A j \in 1..(FirstLayer(cfg) - 1) : Passed(j)
    /\ IsPrefix(SettingKeys(SubSeq(cfg, 1, FirstLayer(cfg) - 1)), SettingKeys(defcfg))
    /\ FirstLayer(cfg) = Len(cfg) + 1
         => \A k \in 1..Len(layercfg) : layercfg[k] = <<>>

\* ---- C16
\* C16: a netconfig start or end key makes no Configure call fail, wherever it
\* stands, and is appended to no list: the global list and the per-layer lists
\* hold only keys other than input_shape, updater, netconfig and layer[...].
C16_MarkersNotRecorded ==
  op = "Configure" =>
    /\ \A j \in 1..Len(cfg) :
         (Reached(j) /\ cfg[j] \in {NcStart, NcEnd}) => Passed(j)
    /\ \A p \in 1..Len(defcfg) : IsSettingKey(defcfg[p])
    /\ \A k \in 1..Len(layercfg) :
         \A p \in 1..Len(layercfg[k]) : IsSettingKey(layercfg[k][p])

\* ---- C17
\* C17: no sequence of Configure, SaveNet and LoadNet calls makes the
\* first-pass assertion fail: no Configure pass on a graph not yet finalized
\* comes to a layer declaration with the length of layers different from the
\* running layer index.
C17_AssertionHolds == result /= ErrInconsistent

\* ---- C18
\* the top node when the scan of c, on a graph with descriptors ls that the
\* declarations before j match, comes to the declaration at j
TopBefore(c, j, ls) ==
  IF LayerIndexOf(c, j) = 0 THEN 0 ELSE ls[LayerIndexOf(c, j)].nindex_out[1]

\* the descriptor that c, read by itself, gives its declaration at j
DescOf(c, j, ls) ==
  [type |-> DeclType(c[j]).type,
   primary_layer_index |->
     IF IsSharedDecl(c[j])
     THEN LayerIndexOf(c, CHOOSE i \in Declaring(c, j, DeclTag(c[j])) : TRUE)
     ELSE -1,
   nindex_in |-> <<LayerNodes(c[j][1], TopBefore(c, j, ls)).a>>,
   nindex_out |-> <<LayerNodes(c[j][1], TopBefore(c, j, ls)).b>>]

\* the declaration at j is for an existing layer and denotes its descriptor
MatchesAt(c, j, ls) ==
  /\ WellFormedAt(c, j)
  /\ LayerIndexOf(c, j) < Len(ls)
  /\ LayerInfoEq(DescOf(c, j, ls), ls[LayerIndexOf(c, j) + 1])

\* the layer declarations of c
LayerDecls(c) == {j \in 1..Len(c) : IsLayerDecl(c[j])}

\* C18: on a finalized graph with n layers a pass whose layer declarations,
\* fewer than n (none included), match the first layers succeeds; a pass whose
\* first n declarations match fails at its declaration n + 1.
C18_PrefixRevalidation ==
  (op = "Configure" /\ pre.param.init_end = 1) =>
    /\ (/\ Cardinality(LayerDecls(cfg)) < Len(pre.layers)
        /\ \A j \in LayerDecls(cfg) : MatchesAt(cfg, j, pre.layers)
        /\ \A j \in 1..Len(cfg) :
             \/ IsLayerDecl(cfg[j])
             \/ IsSettingKey(cfg[j]) /\ \A i \in 1..Len(cfg) : ~FollowsShared(cfg, i, j))
       => result = "ok"
    /\ (/\ Cardinality(LayerDecls(cfg)) > Len(pre.layers)
        /\ \A j \in LayerDecls(cfg) :
             LayerIndexOf(cfg, j) < Len(pre.layers) => MatchesAt(cfg, j, pre.layers))
       => FailedAt(NthLayer(cfg, Len(pre.layers) + 1))

\* ---- C19
\* C19: in a graph finalized by a successful Configure on a new object every
\* shared descriptor, at index k, has a primary_layer_index p with
\* 0 <= p < k and layers[p] not shared, and every other descriptor has
\* primary_layer_index -1.
C19_PrimaryIndices ==
  (FirstOnFresh /\ result = "ok") =>
    \A i \in 1..Len(layers) :
      IF layers[i].type = kSharedLayer
      THEN /\ 0 <= layers[i].primary_layer_index
           /\ layers[i].primary_layer_index < i - 1
           /\ layers[layers[i].primary_layer_index + 1].type /= kSharedLayer
      ELSE layers[i].primary_layer_index = -1

\* two shared layers bound to the same primary layer
C19_Witness ==
  /\ FirstOnFresh /\ result = "ok" /\ param.init_end = 1
  /\ Len(layers) = 3
  /\ layers[1].type = kFullConnect /\ layers[1].primary_layer_index = -1
  /\ layers[2].type = kSharedLayer /\ layers[2].primary_layer_index = 0
  /\ layers[3].type = kSharedLayer /\ layers[3].primary_layer_index = 0

\* ---- C20
\* the last call was a successful Configure without layer declaration on a
\* graph not yet finalized
FinalizedWithoutLayers ==
  /\ op = "Configure" /\ result = "ok"
  /\ pre.param.init_end = 0 /\ LayerDecls(cfg) = {}

\* C20: a successful Configure call on a graph not yet finalized sets
\* init_end, also when its sequence holds no layer declaration; after such a
\* call without layer declaration the graph has 0 layers and 0 nodes, stays so,
\* and every later Configure call that holds a layer declaration fails.
C20_EmptyFinalization ==
  [][ op' = "Configure" =>
        /\ (result' = "ok" /\ param.init_end = 0) => param'.init_end = 1
        /\ (result' = "ok" /\ param.init_end = 0 /\ LayerDecls(cfg') = {})
             => (param'.num_layers = 0 /\ param'.num_nodes = 0 /\ layers' = <<>>)
        /\ (FinalizedWithoutLayers \/ (param.init_end = 1 /\ layers = <<>>))
             => /\ param' = param /\ layers' = layers
                /\ LayerDecls(cfg') /= {} => result' /= "ok" ]_vars

\* the same for an object whose layers hold nothing when the call begins
C20_EmptyFinalizationFromNothing ==
  [][ op' = "Configure" =>
        /\ (result' = "ok" /\ param.init_end = 0) => param'.init_end = 1
        /\ (result' = "ok" /\ param.init_end = 0 /\ layers = <<>> /\ LayerDecls(cfg') = {})
             => (param'.num_layers = 0 /\ param'.num_nodes = 0 /\ layers' = <<>>)
        /\ (param.init_end = 1 /\ layers = <<>>)
             => /\ param' = param /\ layers' = layers
                /\ LayerDecls(cfg') /= {} => result' /= "ok" ]_vars

====
